---- MODULE Spec2Model ----
(***************************************************************************)
(* ARDOUR::CoreSelection (libs/ardour/selection.cc, ardour/selection.h):   *)
(* the registry of selected (stripable, controllable) pairs, and           *)
(* RouteProcessorSelection (gtk2_ardour/route_processor_selection.cc), the *)
(* selection of the mixer's views that forwards to it.                     *)
(*                                                                         *)
(* Objects are identified by small integers; 0 is the null pointer.  A     *)
(* weak_ptr is the identity it was built from (0 when it was built from a  *)
(* null shared_ptr); lock() yields that identity while the object is alive *)
(* and null once it has been destroyed.                                    *)
(*                                                                         *)
(* The std::set is a balanced binary search tree.  Its searches compare    *)
(* the key with the nodes on one path from the root, so once a key has     *)
(* changed under the set (an object died) what a search finds depends on   *)
(* the shape of the tree; the shape is therefore part of the state.  How   *)
(* an insert or erase rebalances is left open within what a red-black tree *)
(* allows.                                                                 *)
(***************************************************************************)
EXTENDS Integers, Sequences, FiniteSets

NumStripables == 2
NumControllables == 1
MaxOrder == 3
NumThreads == 2

null == 0

Stripables == 1..NumStripables
Controllables == 1..NumControllables
Threads == 1..NumThreads

\* one view for each stripable; the views that are mixer strips
AxisViews == Stripables
MixerStrips == {1}

VARIABLES
    alive_s,          \* stripables that have not been destroyed
    alive_c,          \* controllables that have not been destroyed
    _stripables,      \* CoreSelection::_stripables, the tree of entries
    selection_order,  \* CoreSelection::selection_order
    last,             \* the last event: operation, arguments, notifications sent, output
    net,              \* history: pairs added and not removed since
    thread,           \* per thread: where it is in its call, arguments and locals
    writer,           \* _lock: the thread holding the writer lock, 0 if none
    readers,          \* _lock: the threads holding a reader lock
    fault,            \* the process has dereferenced a null pointer
    axes,             \* RouteProcessorSelection::axes
    alive_v,          \* views that have not been destroyed
    connected,        \* views whose CatchDeletion is connected to remove
    toggles           \* history: the concurrent toggle calls made, and the status before them

vars == <<alive_s, alive_c, _stripables, selection_order, last, net, thread, writer, readers,
          fault, axes, alive_v, connected, toggles>>

\* the state of the view layer
view_vars == <<axes, alive_v, connected>>

\* what the calls of one thread at a time leave alone
lock_vars == <<thread, writer, readers, toggles>>

\* what the calls of concurrent threads leave alone
seq_vars == <<alive_s, alive_c, last, net, view_vars, toggles>>

----------------------------------------------------------------------------
(* weak pointers *)

lock_s(w) == IF w \in alive_s THEN w ELSE null
lock_c(w) == IF w \in alive_c THEN w ELSE null

\* weak_ptr_is_not_null taking an expired pointer for a null one
weak_ptr_is_live(w) == w \in alive_c

weak_ptr_is_not_null(w) == w # null

SelectedStripable(s, c, o) == [stripable |-> s, controllable |-> c, order |-> o]

\* operator< without the tie-break on the controllable
operator_lt_stripable_only(a, b) == lock_s(a.stripable) < lock_s(b.stripable)

operator_lt(a, b) ==
    LET s1 == lock_s(a.stripable)
        c1 == lock_c(a.controllable)
        s2 == lock_s(b.stripable)
        c2 == lock_c(b.controllable)
    IN  IF s1 = s2 THEN c1 < c2 ELSE s1 < s2

----------------------------------------------------------------------------
(* std::set<SelectedStripable>: a balanced binary search tree *)

Nil == <<>>
Node(l, e, r) == <<l, e, r>>

RECURSIVE InOrder(_)
InOrder(t) == IF t = Nil THEN <<>> ELSE InOrder(t[1]) \o <<t[2]>> \o InOrder(t[3])

RECURSIVE Size(_)
Size(t) == IF t = Nil THEN 0 ELSE Size(t[1]) + 1 + Size(t[3])

InsertAt(q, p, e) == SubSeq(q, 1, p - 1) \o <<e>> \o SubSeq(q, p, Len(q))
RemoveAt(q, p) == SubSeq(q, 1, p - 1) \o SubSeq(q, p + 1, Len(q))

\* every binary tree whose in-order sequence is q
RECURSIVE Trees(_)
Trees(q) ==
    IF q = <<>> THEN {Nil}
    ELSE UNION { { Node(l, q[i], r) : l \in Trees(SubSeq(q, 1, i - 1)),
                                      r \in Trees(SubSeq(q, i + 1, Len(q))) } :
                 i \in 1..Len(q) }

\* the <<root colour, black height>> pairs with which t can be coloured as a
\* red-black tree
RECURSIVE Colourings(_)
Colourings(t) ==
    IF t = Nil THEN {<<"black", 0>>}
    ELSE LET L == Colourings(t[1])
             R == Colourings(t[3])
         IN  { <<"black", x[2] + 1>> : x \in { x \in L : \E y \in R : y[2] = x[2] } }
             \cup { <<"red", x[2]>> : x \in { x \in L : x[1] = "black" /\ x \in R } }

Balanced(t) == Colourings(t) # {}

\* in-order positions of the nodes above in-order position p
RECURSIVE Ancestors(_, _, _)
Ancestors(t, p, base) ==
    IF t = Nil \/ p = base + Size(t[1]) + 1 THEN {}
    ELSE IF p <= base + Size(t[1])
         THEN {base + Size(t[1]) + 1} \cup Ancestors(t[1], p, base)
         ELSE {base + Size(t[1]) + 1} \cup Ancestors(t[3], p, base + Size(t[1]) + 1)

\* the descent of insert (left iff k < node): the in-order position the new
\* node gets
RECURSIVE insert_pos(_, _, _)
insert_pos(t, k, base) ==
    IF t = Nil THEN base + 1
    ELSE IF operator_lt(k, t[2])
         THEN insert_pos(t[1], k, base)
         ELSE insert_pos(t[3], k, base + Size(t[1]) + 1)

\* the in-order positions of the nodes that descent visits
RECURSIVE insert_path(_, _, _)
insert_path(t, k, base) ==
    IF t = Nil THEN {}
    ELSE IF operator_lt(k, t[2])
         THEN {base + Size(t[1]) + 1} \cup insert_path(t[1], k, base)
         ELSE {base + Size(t[1]) + 1} \cup insert_path(t[3], k, base + Size(t[1]) + 1)

\* insert as std::multiset does it: the new node is linked without looking at
\* the node before it
set_insert_multi(t, k) ==
    LET q == InOrder(t)
        p == insert_pos(t, k, 0)
        path == { IF x >= p THEN x + 1 ELSE x : x \in insert_path(t, k, 0) }
    IN  { <<u, TRUE>> : u \in { u \in Trees(InsertAt(q, p, k)) :
                                  Balanced(u) /\ Ancestors(u, p, 0) \subseteq path } }

\* std::set::insert: the possible <<set after, .second>>.  The new node is
\* linked where the descent ends unless the node before it is not less than
\* k; rebalancing then rotates only nodes on the path to the new node, so the
\* nodes above the new one remain among those the descent visited.
set_insert(t, k) ==
    LET q == InOrder(t)
        p == insert_pos(t, k, 0)
        path == { IF x >= p THEN x + 1 ELSE x : x \in insert_path(t, k, 0) }
    IN  IF p = 1 \/ operator_lt(q[p - 1], k)
          THEN { <<u, TRUE>> : u \in { u \in Trees(InsertAt(q, p, k)) :
                                        Balanced(u) /\ Ancestors(u, p, 0) \subseteq path } }
          ELSE { <<t, FALSE>> }

\* the descent of lower_bound (right iff node < k): the in-order position of
\* the node it returns, Size(t) + 1 being end()
RECURSIVE lower_bound(_, _, _)
lower_bound(t, k, base) ==
    IF t = Nil THEN base + 1
    ELSE IF ~operator_lt(t[2], k)
         THEN lower_bound(t[1], k, base)
         ELSE lower_bound(t[3], k, base + Size(t[1]) + 1)

\* std::set::find: the in-order position found, Size(t) + 1 being end()
set_find(t, k) ==
    LET p == lower_bound(t, k, 0)
    IN  IF p = Size(t) + 1 \/ operator_lt(k, InOrder(t)[p]) THEN Size(t) + 1 ELSE p

\* std::set::erase (iterator): the possible sets after
set_erase(t, p) == { u \in Trees(RemoveAt(InOrder(t), p)) : Balanced(u) }

----------------------------------------------------------------------------
(* queries *)

\* the entries in iteration order, begin() to end()
Iter == InOrder(_stripables)

selected_stripable(s) ==
    /\ s # null
    /\ \E x \in 1..Len(Iter) :
          /\ ~weak_ptr_is_not_null(Iter[x].controllable)
          /\ s = lock_s(Iter[x].stripable)

selected_controllable(c) ==
    /\ c # null
    /\ \E x \in 1..Len(Iter) : c = lock_c(Iter[x].controllable)

StripableControllable(s, c, o) == [stripable |-> s, controllable |-> c, order |-> o]

\* the entries pushed by the scan over the sequence t
pushed(t) ==
    LET keep == { x \in 1..Len(t) : lock_s(t[x].stripable) # null \/ lock_c(t[x].controllable) # null }
        F[x \in 0..Len(t)] ==
            IF x = 0 THEN <<>>
            ELSE IF x \in keep
                 THEN Append(F[x - 1], StripableControllable(lock_s(t[x].stripable),
                                                            lock_c(t[x].controllable), t[x].order))
                 ELSE F[x - 1]
    IN  F[Len(t)]

\* StripableControllerSort with the comparison turned round
StripableControllerSort_descending(a, b) == a.order > b.order

StripableControllerSort(a, b) == a.order < b.order

\* std::sort: the arrangements of v in which no element is followed by one
\* that the comparison puts before it
sort(v) ==
    { w \in [1..Len(v) -> { v[i] : i \in 1..Len(v) }] :
        /\ \A e \in { v[i] : i \in 1..Len(v) } :
              Cardinality({ i \in 1..Len(v) : w[i] = e }) = Cardinality({ i \in 1..Len(v) : v[i] = e })
        /\ \A i, j \in 1..Len(v) : i < j => ~StripableControllerSort(w[j], w[i]) }

----------------------------------------------------------------------------
(* the state after construction *)

Idle == [pc |-> "idle", s |-> null, c |-> null, o |-> 0, changed |-> FALSE, before |-> Nil]

Init ==
    /\ alive_s = Stripables
    /\ alive_c = Controllables
    /\ _stripables = Nil
    /\ selection_order = 0
    /\ last = [op |-> "none", s |-> null, c |-> null, sent |-> 0, sc |-> <<>>, before |-> {}]
    /\ net = {}
    /\ thread = [t \in Threads |-> Idle]
    /\ writer = 0
    /\ readers = {}
    /\ fault = FALSE
    /\ axes = {}
    /\ alive_v = AxisViews
    /\ connected = {}
    /\ toggles = [s |-> null, initial |-> FALSE, called |-> {}]

\* the (stripable, controllable) pairs of the entries, by the references held
Pairs == { <<Iter[x].stripable, Iter[x].controllable>> : x \in 1..Len(Iter) }

\* the record of a call: for a toggle, with the pairs selected before it
Done(op, s, c, sent) ==
    [op |-> op, s |-> s, c |-> c, sent |-> sent, sc |-> <<>>,
     before |-> IF op = "toggle" THEN Pairs ELSE {}]

\* arguments are shared_ptrs: null or an object that is alive
ArgS == alive_s \cup {null}
ArgC == alive_c \cup {null}

----------------------------------------------------------------------------
(* write operations, each a whole call *)

\* DEBUG_TRACE (DEBUG::Selection, string_compose (..., s->name(), c)) in add
\* and set, as the outcomes "faulted": the trace is compiled out or its debug
\* bit is off and s->name() is not evaluated, or s is dereferenced, which
\* faults when s is null
DEBUG_TRACE(s) == IF s = null THEN {FALSE, TRUE} ELSE {FALSE}

do_add(op, s, c) ==
    /\ ~fault
    /\ selection_order < MaxOrder
    /\ \E r \in set_insert(_stripables, SelectedStripable(s, c, selection_order)) :
          /\ _stripables' = r[1]
          /\ \E f \in DEBUG_TRACE(s) :
                /\ fault' = f
                /\ last' = Done(op, s, c, IF r[2] /\ ~f THEN 1 ELSE 0)
    /\ selection_order' = selection_order + 1
    /\ net' = net \cup {<<s, c>>}
    /\ UNCHANGED <<alive_s, alive_c>>
    /\ UNCHANGED lock_vars

do_remove(op, s, c) ==
    /\ ~fault
    /\ LET i == set_find(_stripables, SelectedStripable(s, c, 0))
       IN  IF i # Size(_stripables) + 1
             THEN /\ _stripables' \in set_erase(_stripables, i)
                  /\ last' = Done(op, s, c, 1)
             ELSE /\ _stripables' = _stripables
                  /\ last' = Done(op, s, c, 0)
    /\ net' = net \ {<<s, c>>}
    /\ UNCHANGED <<alive_s, alive_c, selection_order, fault>>
    /\ UNCHANGED lock_vars

do_set(op, s, c) ==
    /\ ~fault
    /\ selection_order < MaxOrder
    /\ LET ss == SelectedStripable(s, c, selection_order)
       IN  IF Size(_stripables) = 1 /\ set_find(_stripables, ss) # Size(_stripables) + 1
             THEN /\ _stripables' = _stripables
                  /\ last' = Done(op, s, c, 0)
                  /\ fault' = fault
             ELSE /\ \E r \in set_insert(Nil, ss) : _stripables' = r[1]
                  /\ \E f \in DEBUG_TRACE(s) :
                        /\ fault' = f
                        /\ last' = Done(op, s, c, IF f THEN 0 ELSE 1)
    /\ selection_order' = selection_order + 1
    /\ net' = {<<s, c>>}
    /\ UNCHANGED <<alive_s, alive_c>>
    /\ UNCHANGED lock_vars

do_clear_stripables(op) ==
    /\ ~fault
    /\ IF _stripables # Nil
         THEN /\ _stripables' = Nil
              /\ last' = Done(op, null, null, 1)
         ELSE /\ _stripables' = _stripables
              /\ last' = Done(op, null, null, 0)
    /\ net' = {}
    /\ UNCHANGED <<alive_s, alive_c, selection_order, fault>>
    /\ UNCHANGED lock_vars

add(s, c) == do_add("add", s, c) /\ UNCHANGED view_vars

remove(s, c) == do_remove("remove", s, c) /\ UNCHANGED view_vars

toggle(s, c) ==
    /\ IF (c # null /\ selected_controllable(c)) \/ selected_stripable(s)
         THEN do_remove("toggle", s, c)
         ELSE do_add("toggle", s, c)
    /\ UNCHANGED view_vars

\* set without the early return
set_always_replaces(s, c) ==
    /\ ~fault
    /\ selection_order < MaxOrder
    /\ \E r \in set_insert(Nil, SelectedStripable(s, c, selection_order)) : _stripables' = r[1]
    /\ last' = Done("set", s, c, 1)
    /\ selection_order' = selection_order + 1
    /\ net' = {<<s, c>>}
    /\ UNCHANGED <<alive_s, alive_c, fault>>
    /\ UNCHANGED lock_vars
    /\ UNCHANGED view_vars

set(s, c) == do_set("set", s, c) /\ UNCHANGED view_vars

\* clear_stripables sending whether or not the set was empty
clear_stripables_always_sends ==
    /\ ~fault
    /\ _stripables' = Nil
    /\ last' = Done("clear_stripables", null, null, 1)
    /\ net' = {}
    /\ UNCHANGED <<alive_s, alive_c, selection_order, fault>>
    /\ UNCHANGED lock_vars
    /\ UNCHANGED view_vars

clear_stripables == do_clear_stripables("clear_stripables") /\ UNCHANGED view_vars

get_stripables ==
    /\ ~fault
    /\ \E w \in sort(pushed(Iter)) :
          last' = [op |-> "get_stripables", s |-> null, c |-> null, sent |-> 0, sc |-> w,
                   before |-> {}]
    /\ UNCHANGED <<alive_s, alive_c, _stripables, selection_order, net, fault>>
    /\ UNCHANGED lock_vars
    /\ UNCHANGED view_vars

----------------------------------------------------------------------------
(* the owners of the objects drop their last reference *)

destroy_stripable(s) ==
    /\ ~fault
    /\ s \in alive_s
    /\ alive_s' = alive_s \ {s}
    /\ last' = Done("destroy_stripable", s, null, 0)
    /\ UNCHANGED <<alive_c, _stripables, selection_order, net, fault>>
    /\ UNCHANGED lock_vars
    /\ UNCHANGED view_vars

destroy_controllable(c) ==
    /\ ~fault
    /\ c \in alive_c
    /\ alive_c' = alive_c \ {c}
    /\ last' = Done("destroy_controllable", null, c, 0)
    /\ UNCHANGED <<alive_s, _stripables, selection_order, net, fault>>
    /\ UNCHANGED lock_vars
    /\ UNCHANGED view_vars

----------------------------------------------------------------------------

Next ==
    \/ \E s \in ArgS, c \in ArgC : add(s, c)
    \/ \E s \in ArgS, c \in ArgC : remove(s, c)
    \/ \E s \in ArgS, c \in ArgC : toggle(s, c)
    \/ \E s \in ArgS, c \in ArgC : set(s, c)
    \/ clear_stripables
    \/ get_stripables
    \/ \E s \in Stripables : destroy_stripable(s)
    \/ \E c \in Controllables : destroy_controllable(c)

Spec == Init /\ [][Next]_vars

----------------------------------------------------------------------------
(* the same calls made by concurrent threads, one step per lock scope; the *)
(* callers keep their objects alive                                         *)

\* calls that take a fresh order value and have not taken it yet
Pending == Cardinality({ t \in Threads : thread[t].pc \in
                  {"add", "add_locked", "set", "set_locked", "toggle_c", "toggle_c_locked",
                   "toggle_s", "toggle_s_locked"} })

call_pair(t, op, s, c) ==
    /\ ~fault
    /\ thread[t].pc = "idle"
    /\ op \in {"add", "set", "toggle"} => selection_order + Pending < MaxOrder
    /\ thread' = [thread EXCEPT ![t] = [Idle EXCEPT
          !.pc = IF op = "toggle"
                   THEN (IF c # null THEN "toggle_c" ELSE IF s # null THEN "toggle_s" ELSE "add")
                   ELSE op,
          !.s = s, !.c = c]]
    /\ UNCHANGED <<_stripables, selection_order, writer, readers>>
    /\ UNCHANGED seq_vars
    /\ UNCHANGED fault

call_add(t, s, c) == call_pair(t, "add", s, c)
call_remove(t, s, c) == call_pair(t, "remove", s, c)
call_set(t, s, c) == call_pair(t, "set", s, c)
call_toggle(t, s, c) == call_pair(t, "toggle", s, c)

call_clear_stripables(t) ==
    /\ ~fault
    /\ thread[t].pc = "idle"
    /\ thread' = [thread EXCEPT ![t] = [Idle EXCEPT !.pc = "clear_stripables"]]
    /\ UNCHANGED <<_stripables, selection_order, writer, readers>>
    /\ UNCHANGED seq_vars
    /\ UNCHANGED fault

\* selected (Stripable) and selected (Controllable) return false for a null
\* argument before they lock
call_selected(t, s, c) ==
    /\ ~fault
    /\ thread[t].pc = "idle"
    /\ s = null \/ c = null
    /\ thread' = [thread EXCEPT ![t] = [Idle EXCEPT
          !.pc = IF s # null THEN "selected_s" ELSE IF c # null THEN "selected_c" ELSE "idle",
          !.s = s, !.c = c]]
    /\ UNCHANGED <<_stripables, selection_order, writer, readers>>
    /\ UNCHANGED seq_vars
    /\ UNCHANGED fault

call_get_stripables(t) ==
    /\ ~fault
    /\ thread[t].pc = "idle"
    /\ thread' = [thread EXCEPT ![t] = [Idle EXCEPT !.pc = "get_stripables"]]
    /\ UNCHANGED <<_stripables, selection_order, writer, readers>>
    /\ UNCHANGED seq_vars
    /\ UNCHANGED fault

\* Glib::Threads::RWLock::WriterLock lm (_lock)
WriterLock(t) ==
    /\ ~fault
    /\ thread[t].pc \in {"add", "remove", "set", "clear_stripables"}
    /\ writer = 0
    /\ readers = {}
    /\ writer' = t
    /\ thread' = [thread EXCEPT ![t].pc =
          CASE thread[t].pc = "add" -> "add_locked"
            [] thread[t].pc = "remove" -> "remove_locked"
            [] thread[t].pc = "set" -> "set_locked"
            [] OTHER -> "clear_locked"]
    /\ UNCHANGED <<_stripables, selection_order, readers>>
    /\ UNCHANGED seq_vars
    /\ UNCHANGED fault

\* a reader lock that does not wait for the writer
ReaderLock_no_wait(t) ==
    /\ ~fault
    /\ thread[t].pc \in {"selected_s", "selected_c", "get_stripables", "toggle_c", "toggle_s",
                         "listener_read"}
    /\ readers' = readers \cup {t}
    /\ thread' = [thread EXCEPT ![t].pc =
          CASE thread[t].pc = "selected_s" -> "selected_s_locked"
            [] thread[t].pc = "selected_c" -> "selected_c_locked"
            [] thread[t].pc = "get_stripables" -> "get_stripables_locked"
            [] thread[t].pc = "toggle_c" -> "toggle_c_locked"
            [] thread[t].pc = "listener_read" -> "listener_read_locked"
            [] OTHER -> "toggle_s_locked"]
    /\ UNCHANGED <<_stripables, selection_order, writer>>
    /\ UNCHANGED seq_vars
    /\ UNCHANGED fault

\* Glib::Threads::RWLock::ReaderLock lm (_lock)
ReaderLock(t) ==
    /\ ~fault
    /\ thread[t].pc \in {"selected_s", "selected_c", "get_stripables", "toggle_c", "toggle_s",
                         "listener_read"}
    /\ writer = 0
    /\ readers' = readers \cup {t}
    /\ thread' = [thread EXCEPT ![t].pc =
          CASE thread[t].pc = "selected_s" -> "selected_s_locked"
            [] thread[t].pc = "selected_c" -> "selected_c_locked"
            [] thread[t].pc = "get_stripables" -> "get_stripables_locked"
            [] thread[t].pc = "toggle_c" -> "toggle_c_locked"
            [] thread[t].pc = "listener_read" -> "listener_read_locked"
            [] OTHER -> "toggle_s_locked"]
    /\ UNCHANGED <<_stripables, selection_order, writer>>
    /\ UNCHANGED seq_vars
    /\ UNCHANGED fault

\* a thread stopped by the fault, inside its lock scope
Faulted(t) == [Idle EXCEPT !.pc = "fault", !.s = thread[t].s, !.c = thread[t].c]

\* a write call leaves its lock scope: it goes on to notify if send is set and
\* returns otherwise; changed records whether the set is another than before
Unlocked(t, send, changed) ==
    IF send THEN [thread[t] EXCEPT !.pc = "notify", !.changed = changed] ELSE Idle

\* add sending the change from inside the lock scope
add_locked_sends_inside(t) ==
    /\ ~fault
    /\ thread[t].pc = "add_locked"
    /\ \E r \in set_insert(_stripables,
                           SelectedStripable(thread[t].s, thread[t].c, selection_order)) :
          /\ _stripables' = r[1]
          /\ thread' = [thread EXCEPT ![t] = Unlocked(t, r[2], r[1] # _stripables)]
    /\ selection_order' = selection_order + 1
    /\ writer' = IF thread'[t].pc = "notify" THEN t ELSE 0
    /\ UNCHANGED readers
    /\ UNCHANGED seq_vars
    /\ UNCHANGED fault

add_locked(t) ==
    /\ ~fault
    /\ thread[t].pc = "add_locked"
    /\ \E r \in set_insert(_stripables,
                           SelectedStripable(thread[t].s, thread[t].c, selection_order)) :
          /\ _stripables' = r[1]
          /\ \E f \in DEBUG_TRACE(thread[t].s) :
                /\ fault' = f
                /\ thread' = [thread EXCEPT ![t] =
                      IF f THEN Faulted(t) ELSE Unlocked(t, r[2], r[1] # _stripables)]
                /\ writer' = IF f THEN t ELSE 0
    /\ selection_order' = selection_order + 1
    /\ UNCHANGED readers
    /\ UNCHANGED seq_vars

remove_locked(t) ==
    /\ ~fault
    /\ thread[t].pc = "remove_locked"
    /\ LET i == set_find(_stripables, SelectedStripable(thread[t].s, thread[t].c, 0))
       IN  IF i # Size(_stripables) + 1
             THEN /\ _stripables' \in set_erase(_stripables, i)
                  /\ thread' = [thread EXCEPT ![t] = Unlocked(t, TRUE, _stripables' # _stripables)]
             ELSE /\ _stripables' = _stripables
                  /\ thread' = [thread EXCEPT ![t] = Unlocked(t, FALSE, FALSE)]
    /\ writer' = 0
    /\ UNCHANGED <<selection_order, readers>>
    /\ UNCHANGED seq_vars
    /\ UNCHANGED fault

\* set taking its order value without advancing the counter
set_locked_no_increment(t) ==
    /\ ~fault
    /\ thread[t].pc = "set_locked"
    /\ LET ss == SelectedStripable(thread[t].s, thread[t].c, selection_order)
       IN  IF Size(_stripables) = 1 /\ set_find(_stripables, ss) # Size(_stripables) + 1
             THEN /\ _stripables' = _stripables
                  /\ writer' = 0
                  /\ thread' = [thread EXCEPT ![t] = Unlocked(t, FALSE, FALSE)]
             ELSE /\ _stripables' = Nil
                  /\ writer' = writer
                  /\ thread' = [thread EXCEPT ![t].pc = "set_cleared",
                                              ![t].o = selection_order,
                                              ![t].before = _stripables]
    /\ selection_order' = selection_order
    /\ UNCHANGED readers
    /\ UNCHANGED seq_vars
    /\ UNCHANGED fault

\* set up to the clear: the early return leaves the lock scope
set_locked(t) ==
    /\ ~fault
    /\ thread[t].pc = "set_locked"
    /\ LET ss == SelectedStripable(thread[t].s, thread[t].c, selection_order)
       IN  IF Size(_stripables) = 1 /\ set_find(_stripables, ss) # Size(_stripables) + 1
             THEN /\ _stripables' = _stripables
                  /\ writer' = 0
                  /\ thread' = [thread EXCEPT ![t] = Unlocked(t, FALSE, FALSE)]
             ELSE /\ _stripables' = Nil
                  /\ writer' = writer
                  /\ thread' = [thread EXCEPT ![t].pc = "set_cleared",
                                              ![t].o = selection_order,
                                              ![t].before = _stripables]
    /\ selection_order' = selection_order + 1
    /\ UNCHANGED readers
    /\ UNCHANGED seq_vars
    /\ UNCHANGED fault

\* set from the insert on
set_cleared(t) ==
    /\ ~fault
    /\ thread[t].pc = "set_cleared"
    /\ \E r \in set_insert(_stripables,
                           SelectedStripable(thread[t].s, thread[t].c, thread[t].o)) :
          _stripables' = r[1]
    /\ \E f \in DEBUG_TRACE(thread[t].s) :
          /\ fault' = f
          /\ thread' = [thread EXCEPT ![t] =
                IF f THEN Faulted(t)
                ELSE [thread[t] EXCEPT !.pc = "notify",
                                       !.changed = (_stripables' # thread[t].before),
                                       !.before = Nil]]
          /\ writer' = IF f THEN t ELSE 0
    /\ UNCHANGED <<selection_order, readers>>
    /\ UNCHANGED seq_vars

clear_locked(t) ==
    /\ ~fault
    /\ thread[t].pc = "clear_locked"
    /\ IF _stripables # Nil
         THEN /\ _stripables' = Nil
              /\ thread' = [thread EXCEPT ![t] = Unlocked(t, TRUE, _stripables' # _stripables)]
         ELSE /\ _stripables' = _stripables
              /\ thread' = [thread EXCEPT ![t] = Unlocked(t, FALSE, FALSE)]
    /\ writer' = 0
    /\ UNCHANGED <<selection_order, readers>>
    /\ UNCHANGED seq_vars
    /\ UNCHANGED fault

\* send_selection_change, with a listener that calls selected or
\* get_stripables from inside the callback
listener_calls(t) ==
    /\ ~fault
    /\ thread[t].pc = "notify"
    /\ thread' = [thread EXCEPT ![t] = [Idle EXCEPT !.pc = "listener_read"]]
    /\ UNCHANGED <<_stripables, selection_order, writer, readers>>
    /\ UNCHANGED seq_vars
    /\ UNCHANGED fault

\* send_selection_change: the listeners run in the calling thread
send_selection_change(t) ==
    /\ ~fault
    /\ thread[t].pc = "notify"
    /\ thread' = [thread EXCEPT ![t] = Idle]
    /\ UNCHANGED <<_stripables, selection_order, writer, readers>>
    /\ UNCHANGED seq_vars
    /\ UNCHANGED fault

\* the scan of a read call, then the unlock
selected_locked(t) ==
    /\ ~fault
    /\ thread[t].pc \in {"selected_s_locked", "selected_c_locked", "get_stripables_locked",
                         "listener_read_locked"}
    /\ readers' = readers \ {t}
    /\ thread' = [thread EXCEPT ![t] = Idle]
    /\ UNCHANGED <<_stripables, selection_order, writer>>
    /\ UNCHANGED seq_vars
    /\ UNCHANGED fault

\* toggle: (c && selected (c)) || selected (s), then remove or add
toggle_locked(t) ==
    /\ ~fault
    /\ thread[t].pc \in {"toggle_c_locked", "toggle_s_locked"}
    /\ readers' = readers \ {t}
    /\ thread' = [thread EXCEPT ![t].pc =
          IF thread[t].pc = "toggle_c_locked"
            THEN (IF selected_controllable(thread[t].c) THEN "remove"
                  ELSE IF thread[t].s # null THEN "toggle_s" ELSE "add")
            ELSE (IF selected_stripable(thread[t].s) THEN "remove" ELSE "add")]
    /\ UNCHANGED <<_stripables, selection_order, writer>>
    /\ UNCHANGED seq_vars
    /\ UNCHANGED fault

NextConc ==
    \/ \E t \in Threads, s \in ArgS, c \in ArgC : call_add(t, s, c)
    \/ \E t \in Threads, s \in ArgS, c \in ArgC : call_remove(t, s, c)
    \/ \E t \in Threads, s \in ArgS, c \in ArgC : call_set(t, s, c)
    \/ \E t \in Threads, s \in ArgS, c \in ArgC : call_toggle(t, s, c)
    \/ \E t \in Threads : call_clear_stripables(t)
    \/ \E t \in Threads, s \in ArgS, c \in ArgC : call_selected(t, s, c)
    \/ \E t \in Threads : call_get_stripables(t)
    \/ \E t \in Threads : WriterLock(t)
    \/ \E t \in Threads : ReaderLock(t)
    \/ \E t \in Threads : add_locked(t)
    \/ \E t \in Threads : remove_locked(t)
    \/ \E t \in Threads : set_locked(t)
    \/ \E t \in Threads : set_cleared(t)
    \/ \E t \in Threads : clear_locked(t)
    \/ \E t \in Threads : send_selection_change(t)
    \/ \E t \in Threads : listener_calls(t)
    \/ \E t \in Threads : selected_locked(t)
    \/ \E t \in Threads : toggle_locked(t)

SpecConc == Init /\ [][NextConc]_vars

\* fair scheduling: a thread inside a call keeps running, and a thread that
\* waits for _lock gets it if the lock is free again and again
Runs(t) ==
    \/ add_locked(t)
    \/ remove_locked(t)
    \/ set_locked(t)
    \/ set_cleared(t)
    \/ clear_locked(t)
    \/ send_selection_change(t)
    \/ listener_calls(t)
    \/ selected_locked(t)
    \/ toggle_locked(t)

Fairness ==
    \A t \in Threads :
        /\ WF_vars(Runs(t))
        /\ SF_vars(WriterLock(t))
        /\ SF_vars(ReaderLock(t))

SpecConcFair == Init /\ [][NextConc]_vars /\ Fairness

----------------------------------------------------------------------------
(* threads that each call toggle (s, null) once, on one stripable, while no *)
(* other call is made; adds made before that set up the selection           *)

call_toggle_once(t) ==
    /\ ~fault
    /\ thread[t].pc = "idle"
    /\ t \notin toggles.called
    /\ toggles.called = {} => \A u \in Threads : thread[u].pc = "idle"
    /\ selection_order + Pending < MaxOrder
    /\ \E s \in alive_s :
          /\ toggles.called # {} => s = toggles.s
          /\ thread' = [thread EXCEPT ![t] = [Idle EXCEPT !.pc = "toggle_s", !.s = s]]
          /\ toggles' = [s |-> s,
                         initial |-> IF toggles.called = {} THEN selected_stripable(s)
                                     ELSE toggles.initial,
                         called |-> toggles.called \cup {t}]
    /\ UNCHANGED <<_stripables, selection_order, writer, readers, fault>>
    /\ UNCHANGED <<alive_s, alive_c, last, net, view_vars>>

NextToggle ==
    \/ \E t \in Threads, s \in ArgS, c \in ArgC : toggles.called = {} /\ call_add(t, s, c)
    \/ \E t \in Threads : call_toggle_once(t)
    \/ \E t \in Threads : ReaderLock(t)
    \/ \E t \in Threads : toggle_locked(t)
    \/ \E t \in Threads : WriterLock(t)
    \/ \E t \in Threads : add_locked(t)
    \/ \E t \in Threads : remove_locked(t)
    \/ \E t \in Threads : send_selection_change(t)

SpecToggle == Init /\ [][NextToggle]_vars

----------------------------------------------------------------------------
(* RouteProcessorSelection, the selection of the mixer's views; its calls   *)
(* are made one at a time, by the GUI thread, with views that are alive,     *)
(* and a view keeps its stripable alive                                      *)

\* r->stripable ()
AxisView_stripable(r) == r

RouteProcessorSelection_selected(r) == r \in axes

\* processors.empty () && axes.empty (): no call modelled here adds a processor
RouteProcessorSelection_empty == axes = {}

RouteProcessorSelection_add(r) ==
    /\ r \in alive_v
    /\ IF r \notin axes
         THEN /\ do_add("RouteProcessorSelection::add", AxisView_stripable(r), null)
              /\ axes' = axes \cup {r}
              /\ connected' = IF r \in MixerStrips THEN connected \cup {r} ELSE connected
         ELSE /\ ~fault
              /\ last' = Done("RouteProcessorSelection::add", AxisView_stripable(r), null, 0)
              /\ UNCHANGED <<alive_s, alive_c, _stripables, selection_order, net, fault>>
              /\ UNCHANGED <<axes, connected>>
              /\ UNCHANGED lock_vars
    /\ UNCHANGED alive_v

\* the change that CoreSelection sends reaches presentation_info_changed,
\* which looks up no view and stores nothing in axes
presentation_info_changed == UNCHANGED view_vars

RouteProcessorSelection_remove(r) ==
    /\ r \in alive_v
    /\ do_remove("RouteProcessorSelection::remove", AxisView_stripable(r), null)
    /\ presentation_info_changed

RouteProcessorSelection_set(r) ==
    /\ r \in alive_v
    /\ do_set("RouteProcessorSelection::set", AxisView_stripable(r), null)
    /\ presentation_info_changed

\* clear_routes; clear_processors has no processor to clear
clear_routes == do_clear_stripables("RouteProcessorSelection::clear")

RouteProcessorSelection_clear ==
    /\ clear_routes
    /\ presentation_info_changed

\* the view is deleted: a mixer strip emits CatchDeletion, which calls
\* remove if add has connected it; the connection ends with the view
CatchDeletion(r) ==
    /\ r \in alive_v
    /\ alive_v' = alive_v \ {r}
    /\ IF r \in connected
         THEN do_remove("CatchDeletion", AxisView_stripable(r), null)
         ELSE /\ ~fault
              /\ last' = Done("CatchDeletion", AxisView_stripable(r), null, 0)
              /\ UNCHANGED <<alive_s, alive_c, _stripables, selection_order, net, fault>>
              /\ UNCHANGED lock_vars
    /\ connected' = connected \ {r}
    /\ UNCHANGED axes

NextView ==
    \/ \E r \in AxisViews : RouteProcessorSelection_add(r)
    \/ \E r \in AxisViews : RouteProcessorSelection_remove(r)
    \/ \E r \in AxisViews : RouteProcessorSelection_set(r)
    \/ RouteProcessorSelection_clear
    \/ \E r \in AxisViews : CatchDeletion(r)

SpecView == Init /\ [][NextView]_vars

----------------------------------------------------------------------------
(* properties *)

AllAlive == alive_s = Stripables /\ alive_c = Controllables

Entries == { Iter[x] : x \in 1..Len(Iter) }

\* C1: while every object is alive, selected(s) is true exactly when the pair
\* (s, null) has been added and not removed since, and selected(c) exactly
\* when some pair (s', c) has been added and not removed since.
C1_NetMembership ==
    AllAlive =>
        /\ \A s \in Stripables : selected_stripable(s) <=> <<s, null>> \in net
        /\ \A c \in Controllables :
              selected_controllable(c) <=> \E s \in Stripables \cup {null} : <<s, c>> \in net

\* (S1, null) and (S1, C1) were added, (S1, null) was just removed: C1 is
\* still selected, S1 no longer is
C1_Witness ==
    /\ AllAlive
    /\ last = Done("remove", 1, null, 1)
    /\ <<1, 1>> \in net
    /\ selected_controllable(1)
    /\ ~selected_stripable(1)

\* C2: an add(s,c) that directly follows an add(s,c) leaves the set and the
\* entry's order value as they are and sends nothing, so when the first call
\* inserted the entry the two calls together send exactly one notification.
C2_AddIdempotent ==
    [][ (last.op = "add" /\ last'.op = "add" /\ last'.s = last.s /\ last'.c = last.c)
        => /\ _stripables' = _stripables
           /\ last'.sent = 0
           /\ last.sent = 1 => last.sent + last'.sent = 1 ]_vars

\* add(S1, null) inserted its entry at order 0 and was repeated
C2_Witness ==
    /\ last = Done("add", 1, null, 0)
    /\ selection_order = 2
    /\ Iter = <<SelectedStripable(1, null, 0)>>

\* C3: set(s,c) on a selection that is not already exactly {(s,c)} leaves
\* exactly the one entry (s,c) when it unlocks, and while the old entries are
\* cleared and the new one is not yet inserted no thread holds a reader lock.
C3_SetAtomic ==
    [][ \A t \in Threads :
          /\ thread'[t].pc = "set_cleared" => (writer' = t /\ readers' = {})
          /\ (thread[t].pc = "set_cleared" /\ thread'[t].pc # "set_cleared")
                => Iter' = <<SelectedStripable(thread[t].s, thread[t].c, thread[t].o)>> ]_vars

\* thread 1 has cleared a non-empty selection in set and not yet inserted,
\* thread 2 is waiting to read
C3_Witness ==
    /\ thread[1].pc = "set_cleared"
    /\ thread[1].before # Nil
    /\ _stripables = Nil
    /\ thread[2].pc \in {"selected_s", "selected_c", "get_stripables"}

\* C5: a write call sends at most one notification, only if it changed the
\* set, and only after it has released the writer lock.
C5_NotifyOutsideLock ==
    [][ \A t \in Threads :
          /\ thread'[t].pc = "notify" => (writer' # t /\ thread'[t].changed)
          /\ (thread[t].pc \in {"notify", "listener_read", "listener_read_locked"}
                /\ thread'[t] # thread[t])
                => thread'[t].pc \in {"idle", "listener_read", "listener_read_locked"} ]_vars

\* thread 1 is about to notify while thread 2 holds the writer lock
C5_Witness ==
    /\ thread[1].pc = "notify"
    /\ thread[1].changed
    /\ writer = 2

\* C4: set(s,c) on a selection that is exactly the one entry (s,c) sends no
\* notification and leaves the set and the entry's order value unchanged.
C4_SetSameIsNoop ==
    [][ (/\ Len(Iter) = 1
         /\ last'.op = "set"
         /\ Iter[1].stripable = last'.s
         /\ Iter[1].controllable = last'.c)
        => (last'.sent = 0 /\ _stripables' = _stripables) ]_vars

\* set(S1, C1) was called twice: the entry still has the first call's order
C4_Witness ==
    /\ last = Done("set", 1, 1, 0)
    /\ Iter = <<SelectedStripable(1, 1, 0)>>
    /\ selection_order = 2

\* C6: clear_stripables() on an empty selection changes nothing and sends
\* nothing; on a non-empty one it removes every entry and sends exactly one
\* notification.
C6_Clear ==
    [][ last'.op = "clear_stripables"
        => /\ _stripables' = Nil
           /\ last'.sent = (IF _stripables = Nil THEN 0 ELSE 1) ]_vars

\* a selection of two entries was cleared
C6_Witness ==
    /\ last = Done("clear_stripables", null, null, 1)
    /\ _stripables = Nil
    /\ selection_order = 2
    /\ Cardinality(net) = 0

\* C7: get_stripables() returns the entries in strictly ascending order of
\* their order value, every entry with at least one live reference and no
\* entry whose references are both expired or absent.
C7_GetStripables ==
    last.op = "get_stripables" =>
        LET sc == last.sc
            live(e) == lock_s(e.stripable) # null \/ lock_c(e.controllable) # null
            view(e) == StripableControllable(lock_s(e.stripable), lock_c(e.controllable), e.order)
        IN  /\ \A i, j \in 1..Len(sc) : i < j => sc[i].order < sc[j].order
            /\ \A e \in Entries : live(e) => \E i \in 1..Len(sc) : sc[i] = view(e)
            /\ \A i \in 1..Len(sc) :
                  /\ sc[i].stripable # null \/ sc[i].controllable # null
                  /\ \E e \in Entries : live(e) /\ sc[i] = view(e)

\* a snapshot of two entries that the set holds in the opposite order, taken
\* while a third entry's only object, a stripable, has been destroyed
C7_Witness ==
    /\ last.op = "get_stripables"
    /\ Len(last.sc) = 2
    /\ last.sc[1].order < last.sc[2].order
    /\ \E x, y \in 1..Len(Iter) :
          x < y /\ Iter[x].order = last.sc[2].order /\ Iter[y].order = last.sc[1].order
    /\ \E e \in Entries :
          e.stripable # null /\ e.stripable \notin alive_s /\ e.controllable = null

\* C8: the selection holds at most one entry per (stripable identity,
\* controllable identity) pair, an expired or absent reference counting as
\* the null identity.
C8_OneEntryPerPair ==
    \A x, y \in 1..Len(Iter) :
        (/\ lock_s(Iter[x].stripable) = lock_s(Iter[y].stripable)
         /\ lock_c(Iter[x].controllable) = lock_c(Iter[y].controllable))
        => x = y

\* C9 as claimed: selected(s) is true exactly when some entry's stripable is
\* alive and identical to s and the entry has no live controllable.
C9_NoLiveControllable ==
    \A s \in alive_s :
        selected_stripable(s) <=>
            \E e \in Entries : lock_s(e.stripable) = s /\ lock_c(e.controllable) = null

\* C9 amended: selected(s) is true exactly when some entry's stripable is
\* alive and identical to s and the entry was made without a controllable;
\* an entry (s, c) whose controllable has been destroyed does not count.
C9_NoControllableReference ==
    \A s \in alive_s :
        /\ selected_stripable(s) <=>
              \E e \in Entries : lock_s(e.stripable) = s /\ e.controllable = null
        /\ (\A e \in Entries : lock_s(e.stripable) = s => e.controllable # null)
              => ~selected_stripable(s)

\* the only entry is (S1, C1), C1 has been destroyed and S1 is alive
C9_Witness ==
    /\ Len(Iter) = 1
    /\ Iter[1].stripable = 1
    /\ Iter[1].controllable = 1
    /\ 1 \in alive_s
    /\ 1 \notin alive_c
    /\ ~selected_stripable(1)

\* C10: toggle(s, null) called with s alive flips selected(s).
C10_ToggleFlips ==
    [][ \A s \in Stripables :
          (last'.op = "toggle" /\ last'.c = null /\ last'.s = s)
          => (selected_stripable(s)' # selected_stripable(s)) ]_vars

\* C11: every entry that add or set inserts has an order value greater than
\* the order value of every entry that was in the set before, and below the
\* counter; so the entries of the set have pairwise distinct order values,
\* also when several threads add at once.
C11_OrderMonotonic ==
    [][ /\ \A e \in Entries' \ Entries : \A f \in Entries : f.order < e.order
        /\ \A e \in Entries' : e.order < selection_order'
        /\ \A x, y \in 1..Len(Iter') : x # y => Iter'[x].order # Iter'[y].order ]_vars

\* both threads have added an entry and neither has returned yet
C11_Witness ==
    /\ \A t \in Threads : thread[t].pc = "notify" /\ thread[t].changed
    /\ Size(_stripables) = 2
    /\ \E x, y \in 1..Len(Iter) : Iter[x].order < Iter[y].order

\* C12: a call of add, set, remove or toggle with a null stripable and a
\* controllable c completes without a fault, and after add(null, c) or
\* set(null, c) selected(c) is true.
C12_Total ==
    [][ \A c \in Controllables :
          (last'.op \in {"add", "set", "remove", "toggle"} /\ last'.s = null /\ last'.c = c
             /\ last' # last)
          => /\ ~fault'
             /\ last'.op \in {"add", "set"} => selected_controllable(c)' ]_vars

\* C13: when clear() of the view selection returns, CoreSelection has no
\* entry, the tracked set of views is empty, selected(view) is false for
\* every view and empty() is true.
C13_ClearEmptiesBoth ==
    [][ (last'.op = "RouteProcessorSelection::clear" /\ last' # last)
        => /\ _stripables' = Nil
           /\ axes' = {}
           /\ \A r \in AxisViews : ~RouteProcessorSelection_selected(r)'
           /\ RouteProcessorSelection_empty' ]_vars

\* C14: when a mixer strip that was added to the view selection is deleted
\* and its deletion notification has been handled, CoreSelection holds no
\* entry (view.stripable(), null) and the tracked set of views does not
\* contain the view.
C14_DeletedViewDeselected ==
    [][ \A r \in MixerStrips :
          (r \in alive_v /\ r \notin alive_v' /\ r \in axes)
          => /\ \A e \in Entries' :
                   ~(e.stripable = AxisView_stripable(r) /\ e.controllable = null)
             /\ r \notin axes' ]_vars

\* C15: under fair scheduling every call that a thread has invoked
\* eventually returns, with readers and writers running concurrently and
\* with listeners that read the selection from inside the notification.
C15_EveryCallReturns ==
    \A t \in Threads : (thread[t].pc # "idle") ~> (thread[t].pc = "idle")

\* C16: while every view is alive, after any completed sequence of add,
\* remove, set and clear calls on the view selection, selected(v) of the view
\* selection is true exactly when CoreSelection's selected(v.stripable()) is.
C16_CacheInSync ==
    alive_v = AxisViews =>
        \A r \in AxisViews :
            RouteProcessorSelection_selected(r) <=> selected_stripable(AxisView_stripable(r))

\* C17: after a call add(v) of the view selection for a live view v, whatever
\* calls came before it, CoreSelection's selected(v.stripable()) is true.
C17_AddSelects ==
    [][ \A r \in AxisViews :
          (last'.op = "RouteProcessorSelection::add" /\ last'.s = AxisView_stripable(r)
             /\ last' # last)
          => selected_stripable(AxisView_stripable(r))' ]_vars

\* C18: when threads have each called toggle(s, null) once on the same live
\* stripable, concurrently and with no other writer running, and all of the
\* calls have returned, the stripable-selected status of s differs from the
\* one before the calls exactly when the number of the calls is odd.
C18_ToggleAtomic ==
    (toggles.called # {} /\ \A t \in Threads : thread[t].pc = "idle")
    => ((selected_stripable(toggles.s) # toggles.initial)
           <=> (Cardinality(toggles.called) % 2 = 1))

\* C19: with calls made one at a time, toggle(s, c) for a live stripable s
\* and a controllable c that is live or null changes whether the pair (s, c)
\* is selected, and a second toggle(s, c) right after it restores exactly the
\* set of pairs that was selected before the first.
C19_ToggleInvolution ==
    [][ \A s \in Stripables, c \in Controllables \cup {null} :
          (last'.op = "toggle" /\ last'.s = s /\ last'.c = c)
          => /\ (<<s, c>> \in Pairs') # (<<s, c>> \in Pairs)
             /\ (last.op = "toggle" /\ last.s = s /\ last.c = c) => Pairs' = last.before ]_vars


====
